---- MODULE Spec2Model ----
(***************************************************************************)
(* Model of @marianmeres/clog, src/src/clog.ts: the process-global         *)
(* configuration record, createClog / createNoopClog / withNamespace, the  *)
(* _apply dispatcher (hook, then exactly one writer) and the built-in      *)
(* default and color writers; of src/forward.ts: createLogForwarder around *)
(* the BatchFlusher of @marianmeres/batch; and of src/src/clog.old.ts: the *)
(* legacy createClog with createClog.CONFIG and its MASTER switch.         *)
(*                                                                         *)
(* JavaScript values are records [t, v, style]: t is the typeof-like tag,  *)
(* v the payload as a string, style the css of a styled fragment.          *)
(***************************************************************************)
EXTENDS Integers, Sequences, FiniteSets, TLC

\* ------------------------------------------------------------------ bounds
\* longest argument list a caller passes
MaxArgs == 1
\* deepest withNamespace nesting
MaxDepth == 2
\* most global properties away from their default at one time
MaxGlobalSet == 1
\* records handed to one log forwarder
MaxRecords == 3
\* the maxBatchSize a caller configures for the forwarder's buffer
MaxBuffer == 2

VARIABLES env, GLOBAL, logger, wrappers, last, forwarder

vars == <<env, GLOBAL, logger, wrappers, last, forwarder>>

\* -------------------------------------------------------------- JS values
JS(t, v) == [t |-> t, v |-> v, style |-> ""]

Undefined == JS("undefined", "")
Null == JS("null", "")
True == JS("boolean", "true")
False == JS("boolean", "false")
Str(s) == JS("string", s)
Zero == JS("number", "0")
Obj == JS("object", "plain")
\* an object that references itself: const o = {a: 1}; o.self = o
Circ == JS("object", "circular")
\* a function value; v tells whether calling it returns or raises
Fn(v) == JS("function", v)
\* an Error instance; it carries a stack string
Err(msg) == JS("error", msg)

Styled(text, style) == [t |-> "styled", v |-> text, style |-> style]

Nullish(x) == x.t \in {"undefined", "null"}

\* a ?? b
Coalesce(a, b) == IF Nullish(a) THEN b ELSE a

\* ToBoolean(x), as used by !x, x ? .. : .. and x || y
Truthy(x) ==
  CASE x.t \in {"undefined", "null"} -> FALSE
    [] x.t = "boolean" -> x.v = "true"
    [] x.t = "string" -> x.v # ""
    [] x.t = "number" -> x.v # "0"
    [] OTHER -> TRUE

\* String(x): the default string coercion, as a TLA+ string
JsString(x) ==
  CASE x.t = "undefined" -> "undefined"
    [] x.t = "null" -> "null"
    [] x.t = "boolean" -> x.v
    [] x.t = "string" -> x.v
    [] x.t = "number" -> x.v
    [] x.t = "styled" -> x.v
    [] x.t = "error" -> "Error: " \o x.v
    [] x.t = "function" -> "function"
    [] OTHER -> "[object Object]"

\* args[0] of a rest-parameter array: undefined when there is none
FirstArg(args) == IF Len(args) = 0 THEN Undefined ELSE args[1]

\* String(args[0]) : the coalescing to "" left out
FirstArgString_noCoalesce(args) == JsString(FirstArg(args))

\* String(args[0] ?? "")
FirstArgString(args) == JsString(Coalesce(FirstArg(args), Str("")))

\* arg?.stack : only Error instances expose a stack string
StackOf(x) == IF x.t = "error" THEN Str("Error: " \o x.v \o "\n    at <anonymous>") ELSE Undefined

\* arg?.[CLOG_STYLED]
IsStyled(x) == x.t = "styled"

\* new Date().toISOString(): time is not modelled, one fixed instant
Timestamp == "2026-01-01T00:00:00.000Z"

LEVEL_MAP(method) ==
  CASE method = "debug" -> "DEBUG"
    [] method = "log" -> "INFO"
    [] method = "warn" -> "WARNING"
    [] method = "error" -> "ERROR"

\* ------------------------------------------------------------ environment
\* the ambient markers _detectRuntime looks at
EnvOf(w, d, n) == [window |-> w, deno |-> d, node |-> n]

\* the node marker looked at before the deno marker
_detectRuntime_nodeFirst(e) ==
  IF e.window THEN "browser"
  ELSE IF e.node THEN "node"
  ELSE IF e.deno THEN "deno"
  ELSE "unknown"

_detectRuntime(e) ==
  IF e.window THEN "browser"
  ELSE IF e.deno THEN "deno"
  ELSE IF e.node THEN "node"
  ELSE "unknown"

\* the hosts the program is started in: a browser tab, Node
Envs == { EnvOf(TRUE, FALSE, FALSE), EnvOf(FALSE, FALSE, TRUE) }

\* ---------------------------------------------------------- global config
GlobalDefault ==
  [hook |-> Undefined, writer |-> Undefined, jsonOutput |-> False, debug |-> Undefined,
   stringify |-> Undefined, concat |-> Undefined, stacktrace |-> Undefined]

GlobalProps == DOMAIN GlobalDefault

\* the values callers assign to each property of createClog.global
GlobalValues(p) ==
  CASE p \in {"hook", "writer"} -> {Undefined, Fn("returns"), Fn("throws")}
    [] p = "jsonOutput" -> {True, False}
    [] p = "debug" -> {Undefined, True, False}
    [] OTHER -> {Undefined, True}

NonDefault(g) == Cardinality({p \in GlobalProps : g[p] # GlobalDefault[p]})

\* ------------------------------------------------------- observed events
\* what a call makes observable, in order: the hook invocation, the writer
\* invocation and the console calls of a built-in writer
Ev(e, who, level, ns, args) == [e |-> e, who |-> who, level |-> level, ns |-> ns, args |-> args]

\* the outcome of running a piece of the call: its events and whether it raised
Outcome(events, threw) == [events |-> events, threw |-> threw]

\* ---------------------------------------------------------- styled args
_hasStyledArgs(args) == \E i \in 1..Len(args) : IsStyled(args[i])

\* the fragments handed on as they are
_cleanStyledArgs_keepsFragments(args) == [i \in 1..Len(args) |-> args[i]]

_cleanStyledArgs(args) == [i \in 1..Len(args) |-> IF IsStyled(args[i]) THEN Str(args[i].v) ELSE args[i]]

RECURSIVE JoinSp(_)
JoinSp(pieces) ==
  IF Len(pieces) = 0 THEN ""
  ELSE IF Len(pieces) = 1 THEN pieces[1]
  ELSE pieces[1] \o " " \o JoinSp(Tail(pieces))

RECURSIVE DropLeadingEmpty(_)
DropLeadingEmpty(pieces) ==
  IF Len(pieces) > 0 /\ pieces[1] = "" THEN DropLeadingEmpty(Tail(pieces)) ELSE pieces

RECURSIVE DropTrailingEmpty(_)
DropTrailingEmpty(pieces) ==
  IF Len(pieces) > 0 /\ pieces[Len(pieces)] = ""
  THEN DropTrailingEmpty(SubSeq(pieces, 1, Len(pieces) - 1)) ELSE pieces

\* each piece is followed by one space and the whole is trimmed (the strings
\* of the model hold no white space of their own)
TrimJoin(pieces) == JoinSp(DropTrailingEmpty(DropLeadingEmpty(pieces)))

RECURSIVE StyledValues(_)
StyledValues(args) ==
  IF Len(args) = 0 THEN <<>>
  ELSE LET a == args[1] IN
       (IF IsStyled(a) THEN <<Str(a.style), Str("")>>
        ELSE IF a.t = "string" THEN <<>>
        ELSE <<a>>) \o StyledValues(Tail(args))

StyledPiece(a) ==
  IF IsStyled(a) THEN "%c" \o a.v \o "%c"
  ELSE IF a.t = "string" THEN a.v
  ELSE "%o"

\* [format, values]
_processStyledArgs(args) ==
  [format |-> TrimJoin([i \in 1..Len(args) |-> StyledPiece(args[i])]),
   values |-> StyledValues(args)]

\* ------------------------------------------------------------------ JSON
\* JSON.stringify raises on a self-referential value
JsonThrows(x) == x.t = "object" /\ x.v = "circular"

\* a property whose value is undefined or a function is left out
JsonOmitted(x) == x.t \in {"undefined", "function"}

JsonText(x) ==
  CASE x.t = "null" -> "null"
    [] x.t \in {"boolean", "number"} -> x.v
    [] x.t = "string" -> "\"" \o x.v \o "\""
    [] x.t = "error" -> "{}"
    [] x.t = "styled" -> "{\"text\":\"" \o x.v \o "\",\"style\":\"" \o x.style \o "\"}"
    [] OTHER -> "{\"key\":\"value\"}"

RECURSIVE JsonFields(_)
JsonFields(fields) ==
  IF Len(fields) = 0 THEN <<>>
  ELSE (IF JsonOmitted(fields[1][2]) THEN <<>>
        ELSE << "\"" \o fields[1][1] \o "\":" \o JsonText(fields[1][2]) >>) \o JsonFields(Tail(fields))

RECURSIVE JoinComma(_)
JoinComma(pieces) ==
  IF Len(pieces) = 0 THEN ""
  ELSE IF Len(pieces) = 1 THEN pieces[1]
  ELSE pieces[1] \o "," \o JoinComma(Tail(pieces))

\* JSON.stringify of an object given as <<key, value>> pairs
JsonStringify(fields) == "{" \o JoinComma(JsonFields(fields)) \o "}"

\* -------------------------------------------------------- default writer
\* WARNING written through console.log
ConsoleMethod_warnAsLog(level) ==
  CASE level = "DEBUG" -> "debug"
    [] level = "INFO" -> "log"
    [] level = "WARNING" -> "log"
    [] level = "ERROR" -> "error"

ConsoleMethod(level) ==
  CASE level = "DEBUG" -> "debug"
    [] level = "INFO" -> "log"
    [] level = "WARNING" -> "warn"
    [] level = "ERROR" -> "error"

\* the brackets written also when there is no namespace
NsTag_always(namespace) == "[" \o (IF Truthy(namespace) THEN namespace.v ELSE "") \o "]"

NsTag(namespace) == IF Truthy(namespace) THEN "[" \o namespace.v \o "]" ELSE ""

\* output[`arg_${i}`] = arg : the stack of an Error not taken
JsonOutputFields_rawArgs(data, cleanedArgs) ==
  << <<"timestamp", Str(data.timestamp)>>, <<"level", Str(data.level)>>,
     <<"namespace", data.namespace>>, <<"message", FirstArg(cleanedArgs)>> >>
  \o [i \in 1..(IF Len(cleanedArgs) = 0 THEN 0 ELSE Len(cleanedArgs) - 1) |->
        <<"arg_" \o ToString(i - 1), cleanedArgs[i + 1]>>]

\* the object the JSON branch builds: message, then arg_0, arg_1, ...
JsonOutputFields(data, cleanedArgs) ==
  << <<"timestamp", Str(data.timestamp)>>, <<"level", Str(data.level)>>,
     <<"namespace", data.namespace>>, <<"message", FirstArg(cleanedArgs)>> >>
  \o [i \in 1..(IF Len(cleanedArgs) = 0 THEN 0 ELSE Len(cleanedArgs) - 1) |->
        <<"arg_" \o ToString(i - 1), Coalesce(StackOf(cleanedArgs[i + 1]), cleanedArgs[i + 1])>>]

defaultWriter(e, g, data) ==
  LET runtime == _detectRuntime(e)
      consoleMethod == ConsoleMethod(data.level)
      ns == NsTag(data.namespace)
      hasStyled == _hasStyledArgs(data.args)
      cleanedArgs == _cleanStyledArgs(data.args)
      Console(cargs) == Ev("console", consoleMethod, data.level, data.namespace, cargs)
  IN
  IF runtime \in {"browser", "deno"} /\ hasStyled THEN
    LET p == _processStyledArgs(data.args) IN
    IF runtime = "browser"
    THEN Outcome(<<Console(<<Str(IF ns # "" THEN ns \o " " \o p.format ELSE p.format)>> \o p.values)>>, FALSE)
    ELSE LET prefix == "[" \o data.timestamp \o "] [" \o data.level \o "]" \o (IF ns # "" THEN " " \o ns ELSE "")
         IN Outcome(<<Console(<<Str(prefix \o " " \o p.format)>> \o p.values)>>, FALSE)
  ELSE IF runtime = "browser" THEN
    Outcome(<<Console(<<Str(ns)>> \o cleanedArgs)>>, FALSE)
  ELSE IF Truthy(g.jsonOutput) THEN
    LET output == JsonOutputFields(data, cleanedArgs) IN
    IF \E i \in 1..Len(output) : JsonThrows(output[i][2])
    THEN Outcome(<<>>, TRUE)
    ELSE Outcome(<<Console(<<Str(JsonStringify(output))>>)>>, FALSE)
  ELSE
    LET prefix == "[" \o data.timestamp \o "] [" \o data.level \o "]" \o (IF ns # "" THEN " " \o ns ELSE "")
    IN Outcome(<<Console(<<Str(prefix)>> \o cleanedArgs)>>, FALSE)

\* ---------------------------------------------------------- color writer
\* COLORS[strHash(str) % COLORS.length] for the namespaces of the model
autoColor(str) ==
  CASE str = "app" -> "#d26565"
    [] OTHER -> "#969696"

\* the fallback taken for the runtime only, not for a missing namespace
colorWriter_runtimeOnly(color, e, g, data) ==
  LET runtime == _detectRuntime(e)
      consoleMethod == ConsoleMethod(data.level)
      Console(cargs) == Ev("console", consoleMethod, data.level, data.namespace, cargs)
  IN
  IF runtime \notin {"browser", "deno"} THEN defaultWriter(e, g, data)
  ELSE
    LET ns == "[" \o data.namespace.v \o "]"
        css == Str("color:" \o color.v)
    IN
    IF runtime = "browser"
    THEN Outcome(<<Console(<<Str("%c" \o ns), css>> \o data.args)>>, FALSE)
    ELSE Outcome(<<Console(<<Str("[" \o data.timestamp \o "] [" \o data.level \o "] %c" \o ns), css>> \o data.args)>>, FALSE)

colorWriter(color, e, g, data) ==
  LET runtime == _detectRuntime(e)
      consoleMethod == ConsoleMethod(data.level)
      Console(cargs) == Ev("console", consoleMethod, data.level, data.namespace, cargs)
  IN
  IF runtime \notin {"browser", "deno"} \/ ~Truthy(data.namespace) THEN defaultWriter(e, g, data)
  ELSE
    LET ns == "[" \o data.namespace.v \o "]"
        col == IF color = Str("auto") THEN autoColor(data.namespace.v) ELSE color.v
        css == Str("color:" \o col)
    IN
    IF _hasStyledArgs(data.args) THEN
      LET p == _processStyledArgs(data.args) IN
      IF runtime = "browser"
      THEN Outcome(<<Console(<<Str("%c" \o ns \o "%c " \o p.format), css, Str("")>> \o p.values)>>, FALSE)
      ELSE Outcome(<<Console(<<Str("[" \o data.timestamp \o "] [" \o data.level \o "] %c" \o ns \o "%c " \o p.format),
                               css, Str("")>> \o p.values)>>, FALSE)
    ELSE
      IF runtime = "browser"
      THEN Outcome(<<Console(<<Str("%c" \o ns), css>> \o data.args)>>, FALSE)
      ELSE Outcome(<<Console(<<Str("[" \o data.timestamp \o "] [" \o data.level \o "] %c" \o ns), css>> \o data.args)>>, FALSE)

\* -------------------------------------------------------------- loggers
\* the logger the program holds: kind "none" before any was created, "clog"
\* for createClog, "noop" for createNoopClog. writer, color and debug are
\* the fields of the instance config (undefined when absent); debugNoop
\* tells which closure createClog attached as logger.debug. stringify and
\* concat are further properties of the config object handed to createClog,
\* which the closures keep but never read.
Logger(kind, ns, writer, color, debug, debugNoop, stringify, concat) ==
  [kind |-> kind, ns |-> ns, writer |-> writer, color |-> color, debug |-> debug,
   debugNoop |-> debugNoop, stringify |-> stringify, concat |-> concat]

NoLogger == Logger("none", False, Undefined, Undefined, Undefined, FALSE, Undefined, Undefined)

\* (GLOBAL.debug ?? config?.debug) === false : the two layers swapped
DebugIsNoop_globalFirst(cfgDebug, g) == Coalesce(g.debug, cfgDebug) = False

\* (config?.debug ?? GLOBAL.debug) === false
DebugIsNoop(cfgDebug, g) == Coalesce(cfgDebug, g.debug) = False

\* config?.writer ?? GLOBAL.writer : the instance writer taken first
SelectWriter_instanceFirst(g, lg) ==
  LET writer == Coalesce(lg.writer, g.writer) IN
  IF ~Truthy(writer) /\ Truthy(lg.color) THEN "color"
  ELSE IF Nullish(writer) THEN "default"
  ELSE IF ~Nullish(lg.writer) THEN "instance"
  ELSE "global"

\* which writer _apply invokes: "global", "instance", "color" or "default"
SelectWriter(g, lg) ==
  LET writer == Coalesce(g.writer, lg.writer) IN
  IF ~Truthy(writer) /\ Truthy(lg.color) THEN "color"
  ELSE IF Nullish(writer) THEN "default"
  ELSE IF ~Nullish(g.writer) THEN "global"
  ELSE "instance"

\* the global writer run in addition to, not instead of, the instance writer
RunWriter_alsoInstance(who, lg, e, g, data) ==
  LET sink == Ev("sink", who, data.level, data.namespace, data.args)
      inst == Ev("sink", "instance", data.level, data.namespace, data.args) IN
  CASE who = "global" ->
         IF Nullish(lg.writer) THEN Outcome(<<sink>>, g.writer.v = "throws")
         ELSE Outcome(<<sink, inst>>, g.writer.v = "throws" \/ lg.writer.v = "throws")
    [] who = "instance" -> Outcome(<<sink>>, lg.writer.v = "throws")
    [] who = "color" ->
         LET r == colorWriter(lg.color, e, g, data) IN Outcome(<<sink>> \o r.events, r.threw)
    [] OTHER ->
         LET r == defaultWriter(e, g, data) IN Outcome(<<sink>> \o r.events, r.threw)

\* writer(data) for the selected writer
RunWriter(who, lg, e, g, data) ==
  LET sink == Ev("sink", who, data.level, data.namespace, data.args) IN
  CASE who = "global" -> Outcome(<<sink>>, g.writer.v = "throws")
    [] who = "instance" -> Outcome(<<sink>>, lg.writer.v = "throws")
    [] who = "color" ->
         LET r == colorWriter(lg.color, e, g, data) IN Outcome(<<sink>> \o r.events, r.threw)
    [] OTHER ->
         LET r == defaultWriter(e, g, data) IN Outcome(<<sink>> \o r.events, r.threw)

\* the result of a logging method: what it made observable, whether it
\* raised, and the value it returned (when it did not raise)
Result(events, threw, ret) == [events |-> events, threw |-> threw, ret |-> ret]

\* the writer invoked first and the hook after it
_apply_writerFirst(level, args, lg, e, g) ==
  LET message == FirstArgString(args)
      data == [level |-> LEVEL_MAP(level), namespace |-> lg.ns, args |-> args, timestamp |-> Timestamp]
      hooked == ~Nullish(g.hook)
      hookEv == IF hooked THEN <<Ev("hook", "global", data.level, data.namespace, data.args)>> ELSE <<>>
      w == RunWriter(SelectWriter(g, lg), lg, e, g, data)
  IN
  IF w.threw THEN Result(w.events, TRUE, "")
  ELSE IF hooked /\ g.hook.v = "throws" THEN Result(w.events \o hookEv, TRUE, "")
  ELSE Result(w.events \o hookEv, FALSE, message)

\* the hook wrapped in try/catch: its exception is swallowed
_apply_catchesHook(level, args, lg, e, g) ==
  LET message == FirstArgString(args)
      data == [level |-> LEVEL_MAP(level), namespace |-> lg.ns, args |-> args, timestamp |-> Timestamp]
      hooked == ~Nullish(g.hook)
      hookEv == IF hooked THEN <<Ev("hook", "global", data.level, data.namespace, data.args)>> ELSE <<>>
      w == RunWriter(SelectWriter(g, lg), lg, e, g, data)
  IN Result(hookEv \o w.events, w.threw, IF w.threw THEN "" ELSE message)

_apply(level, args, lg, e, g) ==
  LET message == FirstArgString(args)
      data == [level |-> LEVEL_MAP(level), namespace |-> lg.ns, args |-> args, timestamp |-> Timestamp]
      hooked == ~Nullish(g.hook)
      hookEv == IF hooked THEN <<Ev("hook", "global", data.level, data.namespace, data.args)>> ELSE <<>>
  IN
  IF hooked /\ g.hook.v = "throws" THEN Result(hookEv, TRUE, "")
  ELSE LET w == RunWriter(SelectWriter(g, lg), lg, e, g, data) IN
       Result(hookEv \o w.events, w.threw, IF w.threw THEN "" ELSE message)

\* the closures of createNoopClog, and logger.debug of a suppressed logger
_return(args) == Result(<<>>, FALSE, FirstArgString(args))

\* the suppression test left out of logger.debug
RootInvoke_neverSuppressed(method, args, lg, e, g) ==
  IF lg.kind = "noop" THEN _return(args)
  ELSE _apply(IF method \in {"call"} THEN "log" ELSE method, args, lg, e, g)

\* the methods of a createNoopClog logger bound to _apply
RootInvoke_noopApplies(method, args, lg, e, g) ==
  IF method = "debug" /\ lg.debugNoop THEN _return(args)
  ELSE _apply(IF method = "call" THEN "log" ELSE method, args, lg, e, g)

\* a method of the root logger; "call" is the direct-call form
RootInvoke(method, args, lg, e, g) ==
  IF lg.kind = "noop" THEN _return(args)
  ELSE IF method = "debug" THEN
    (IF lg.debugNoop THEN _return(args) ELSE _apply("debug", args, lg, e, g))
  ELSE _apply(IF method = "call" THEN "log" ELSE method, args, lg, e, g)

\* logger.<method>(...args, prefix) : the bracket token put after the arguments
RECURSIVE Invoke_prefixLast(_, _, _, _, _, _, _)
Invoke_prefixLast(d, method, args, names, lg, e, g) ==
  IF d = 0 THEN RootInvoke(method, args, lg, e, g)
  ELSE LET prefix == Str("[" \o names[d] \o "]")
           inner == Invoke_prefixLast(d - 1, IF method = "call" THEN "log" ELSE method,
                                      args \o <<prefix>>, names, lg, e, g)
       IN IF inner.threw THEN inner ELSE Result(inner.events, FALSE, FirstArgString(args))

\* wrapped.debug delegating to logger.log
RECURSIVE Invoke_debugAsLog(_, _, _, _, _, _, _)
Invoke_debugAsLog(d, method, args, names, lg, e, g) ==
  IF d = 0 THEN RootInvoke(method, args, lg, e, g)
  ELSE LET prefix == Str("[" \o names[d] \o "]")
           inner == Invoke_debugAsLog(d - 1, IF method \in {"call", "debug"} THEN "log" ELSE method,
                                      <<prefix>> \o args, names, lg, e, g)
       IN IF inner.threw THEN inner ELSE Result(inner.events, FALSE, FirstArgString(args))

\* a method of the d-th withNamespace wrapper around the root logger (d = 0
\* is the root itself); names[d] is the namespace of the d-th wrapper
RECURSIVE Invoke(_, _, _, _, _, _, _)
Invoke(d, method, args, names, lg, e, g) ==
  IF d = 0 THEN RootInvoke(method, args, lg, e, g)
  ELSE LET prefix == Str("[" \o names[d] \o "]")
           inner == Invoke(d - 1, IF method = "call" THEN "log" ELSE method,
                           <<prefix>> \o args, names, lg, e, g)
       IN IF inner.threw THEN inner ELSE Result(inner.events, FALSE, FirstArgString(args))

\* --------------------------------------------------------------- inputs
FirstValues == {Undefined, Null, Str("s"), Zero, Obj, Circ}

RestValues == {Circ}

ArgsOfLen(n) ==
  IF n = 0 THEN {<<>>}
  ELSE {<<f>> \o r : f \in FirstValues, r \in [1..(n - 1) -> RestValues]}

ArgLists == UNION {ArgsOfLen(n) : n \in 0..MaxArgs}

Methods == {"call", "debug", "log", "warn", "error"}

Namespaces == {Undefined, Str("app")}

NoopNamespaces == {Undefined, Null, Str("app")}

\* the namespaces of the wrappers: "module" around the root logger, "sub"
\* around that, and so on alternately
WrapNames(depth) == IF depth % 2 = 1 THEN {"module"} ELSE {"sub"}

Configs ==
  [writer : {Undefined, Fn("returns")},
   color : {Undefined, Str("red")},
   debug : {Undefined, True, False},
   stringify : {Undefined},
   concat : {Undefined}]

\* the record of the most recent operation; a configuration change leaves
\* nothing of an earlier call to observe
Last(op, method, args, r) ==
  [op |-> op, method |-> method, args |-> args, events |-> r.events, threw |-> r.threw, ret |-> r.ret]

NoCall == Last("none", "", <<>>, Result(<<>>, FALSE, ""))

\* -------------------------------------------------------- log forwarder
\* forward.ts: createLogForwarder wraps the BatchFlusher of @marianmeres/batch.
\* The forwarder is the record
\*   [created, config, logger, limit, buffer, running, seq, handed, accepted,
\*    reentered]
\* config is the object the caller passed, logger what the BatchFlusher was
\* constructed with, buffer the pending records (oldest first), seq the number
\* of records added so far (each record carries its number n), handed the
\* batch the flusher was called with last and accepted the records of the
\* batches it returned true for.

noopLogger == JS("logger", "noop")

callerLogger == JS("logger", "caller")

\* the config argument: given tells whether one was passed, hasLogger whether
\* it has an own property "logger", and maxBatchSize is 0 when it has none
ForwarderConfig(given, hasLogger, lg, maxBatchSize) ==
  [given |-> given, hasLogger |-> hasLogger, logger |-> lg, maxBatchSize |-> maxBatchSize]

\* { logger: noopLogger, ...config }: an own property of config, whatever its
\* value, replaces the default
mergedConfig(config) ==
  [config EXCEPT !.logger = IF config.given /\ config.hasLogger THEN config.logger ELSE noopLogger]

NoForwarder ==
  [created |-> FALSE, config |-> ForwarderConfig(FALSE, FALSE, Undefined, 0), logger |-> Undefined,
   limit |-> 0, buffer |-> <<>>, running |-> FALSE, seq |-> 0, handed |-> <<>>,
   accepted |-> <<>>, reentered |-> FALSE]

\* new BatchFlusher(flusher, config, autostart): the interval timer runs
\* unless autostart is false
BatchFlusher(config, merged, autostart) ==
  [NoForwarder EXCEPT !.created = TRUE, !.config = config, !.logger = merged.logger,
                      !.limit = merged.maxBatchSize, !.running = Truthy(Coalesce(autostart, True))]

\* the oldest records are dropped once the buffer is over its limit
Overflow(buffer, limit) ==
  IF limit > 0 /\ Len(buffer) > limit
  THEN SubSeq(buffer, Len(buffer) - limit + 1, Len(buffer))
  ELSE buffer

\* batcher.add(data). A BatchFlusher without a logger of its own writes its
\* debug output through clog, which calls the global hook again.
BatcherAdd(f, data, g) ==
  [f EXCEPT !.buffer = Overflow(Append(f.buffer, [n |-> f.seq + 1, data |-> data]), f.limit),
            !.seq = f.seq + 1,
            !.reentered = f.reentered \/ (Nullish(f.logger) /\ g.hook = Fn("forwarder"))]

\* batcher.flush(): the flusher gets the whole buffer as one batch; ok is what
\* it returns, keep whether a refused batch stays buffered
BatcherFlush(f, ok, keep) ==
  IF Len(f.buffer) = 0 THEN f
  ELSE [f EXCEPT !.handed = f.buffer,
                 !.accepted = IF ok THEN f.accepted \o f.buffer ELSE f.accepted,
                 !.buffer = IF ok \/ ~keep THEN <<>> ELSE f.buffer]

BatcherStart(f) == [f EXCEPT !.running = TRUE]

BatcherStop(f) == [f EXCEPT !.running = FALSE]

\* batcher.drain(): flush, then stop
BatcherDrain(f, ok, keep) == BatcherStop(BatcherFlush(f, ok, keep))

BatcherReset(f) == [f EXCEPT !.buffer = <<>>]

\* createLogForwarder(flusher, config, autostart)
createLogForwarder(config, autostart) == BatchFlusher(config, mergedConfig(config), autostart)

\* the record dropped instead of added
ForwarderHook_drops(f, data, g) == f

\* forwarder.hook
ForwarderHook(f, data, g) == BatcherAdd(f, data, g)

\* forwarder.add
ForwarderAdd(f, data, g) == BatcherAdd(f, data, g)

\* forwarder.flush
ForwarderFlush(f, ok, keep) == BatcherFlush(f, ok, keep)

\* drain delegating to flush only
ForwarderDrain_flushOnly(f, ok, keep) == BatcherFlush(f, ok, keep)

\* forwarder.drain
ForwarderDrain(f, ok, keep) == BatcherDrain(f, ok, keep)

\* forwarder.start
ForwarderStart(f) == BatcherStart(f)

\* forwarder.stop
ForwarderStop(f) == BatcherStop(f)

\* forwarder.reset
ForwarderReset(f) == BatcherReset(f)

\* forwarder.dump() and forwarder.size
ForwarderDump(f) == f.buffer

ForwarderSize(f) == Len(f.buffer)

\* createClog.global.hook = forwarder.hook: every hook invocation of a call
\* hands its record to the forwarder
RECURSIVE HookFeeds(_, _, _)
HookFeeds(f, g, events) ==
  IF g.hook # Fn("forwarder") \/ Len(events) = 0 THEN f
  ELSE LET x == Head(events) IN
       HookFeeds(IF x.e = "hook"
                 THEN ForwarderHook(f, [level |-> x.level, namespace |-> x.ns, args |-> x.args], g)
                 ELSE f,
                 g, Tail(events))

\* -------------------------------------------------------------- actions
Init ==
  /\ env \in Envs
  /\ GLOBAL = GlobalDefault
  /\ logger = NoLogger
  /\ wrappers = <<>>
  /\ last = NoCall
  /\ forwarder = NoForwarder

\* the logger createClog(namespace, config) returns under the global config g
NewClog(namespace, config, g) ==
  Logger("clog", Coalesce(namespace, False), config.writer, config.color,
         config.debug, DebugIsNoop(config.debug, g), config.stringify, config.concat)

\* createClog(namespace, config)
CreateClog(namespace, config) ==
  /\ logger' = NewClog(namespace, config, GLOBAL)
  /\ wrappers' = <<>>
  /\ last' = NoCall
  /\ UNCHANGED <<env, GLOBAL, forwarder>>

\* createNoopClog(namespace)
CreateNoopClog(namespace) ==
  /\ logger' = Logger("noop", IF Truthy(namespace) THEN namespace ELSE False,
                      Undefined, Undefined, Undefined, FALSE, Undefined, Undefined)
  /\ wrappers' = <<>>
  /\ last' = Last("createNoopClog", "", <<namespace>>, Result(<<>>, FALSE, ""))
  /\ UNCHANGED <<env, GLOBAL, forwarder>>

\* withNamespace(current, namespace): the program keeps the wrapper
WithNamespace(namespace) ==
  /\ logger.kind # "none"
  /\ Len(wrappers) < MaxDepth
  /\ wrappers' = Append(wrappers, namespace)
  /\ last' = NoCall
  /\ UNCHANGED <<env, GLOBAL, logger, forwarder>>

\* createClog.global[p] = v
SetGlobal(p, v) ==
  /\ GLOBAL[p] # v
  /\ NonDefault([GLOBAL EXCEPT ![p] = v]) <= MaxGlobalSet
  /\ GLOBAL' = [GLOBAL EXCEPT ![p] = v]
  /\ last' = NoCall
  /\ UNCHANGED <<env, logger, wrappers, forwarder>>

\* createClog.reset()
ResetGlobal(g) ==
  [g EXCEPT !.hook = Undefined, !.writer = Undefined, !.jsonOutput = False, !.debug = Undefined]

Reset ==
  /\ GLOBAL' = ResetGlobal(GLOBAL)
  /\ last' = Last("reset", "", <<>>, Result(<<>>, FALSE, ""))
  /\ UNCHANGED <<env, logger, wrappers, forwarder>>

\* a call of one method of the logger (or outermost wrapper) the program holds
Call(method, args) ==
  /\ logger.kind # "none"
  /\ LET r == Invoke(Len(wrappers), method, args, wrappers, logger, env, GLOBAL) IN
       /\ last' = Last("call", method, args, r)
       /\ forwarder' = HookFeeds(forwarder, GLOBAL, r.events)
  /\ UNCHANGED <<env, GLOBAL, logger, wrappers>>

\* the caller has read the outcome of the call; the next operation starts
\* with nothing of it left to observe
Discard ==
  /\ last.op = "call"
  /\ last' = NoCall
  /\ UNCHANGED <<env, GLOBAL, logger, wrappers, forwarder>>

\* calls are synchronous: nothing else runs until the outcome has been read
Idle == last.op # "call"

Next ==
  \/ Idle /\ \E ns \in Namespaces, c \in Configs : CreateClog(ns, c)
  \/ Idle /\ \E ns \in NoopNamespaces : CreateNoopClog(ns)
  \/ Idle /\ \E n \in WrapNames(Len(wrappers) + 1) : WithNamespace(n)
  \/ Idle /\ \E p \in GlobalProps : \E v \in GlobalValues(p) : SetGlobal(p, v)
  \/ Idle /\ Reset
  \/ Idle /\ \E m \in Methods, a \in ArgLists : Call(m, a)
  \/ Discard

Spec == Init /\ [][Next]_vars

\* ------------------------------------------- the built-in writers on their own
\* The writers are functions of the host, of GLOBAL.jsonOutput and of the
\* record: here the program starts on any host, with JSON mode on or off and a
\* logger without custom writer, and calls it with longer argument lists.

\* longest argument list of these calls
MaxSinkArgs == 3

\* every combination of the markers: a browser tab (with or without a
\* process shim), Deno (which has a process.versions.node of its own), Node,
\* and a host with none of them
Hosts == {EnvOf(w, d, n) : w \in BOOLEAN, d \in BOOLEAN, n \in BOOLEAN}

SinkValues ==
  {Undefined, Str("s"), Str("50%off"), Obj, Err("boom"), Styled("hi", "color:blue")}

SinkArgLists == UNION {[1..n -> SinkValues] : n \in 0..MaxSinkArgs}

SinkConfigs ==
  [writer : {Undefined}, color : {Undefined, Str("red"), Str("auto")}, debug : {Undefined},
   stringify : {Undefined}, concat : {Undefined}]

SinkInit ==
  /\ env \in Hosts
  /\ GLOBAL \in {[GlobalDefault EXCEPT !.jsonOutput = j] : j \in {True, False}}
  /\ logger \in {NewClog(ns, c, GlobalDefault) : ns \in Namespaces, c \in SinkConfigs}
  /\ wrappers = <<>>
  /\ last = NoCall
  /\ forwarder = NoForwarder

SinkNext ==
  \/ Idle /\ \E m \in Methods, a \in SinkArgLists : Call(m, a)
  \/ Discard

SinkSpec == SinkInit /\ [][SinkNext]_vars

\* ------------------------------------------ the stringify and concat settings
\* The program runs on Node with createClog.global.stringify and .concat
\* assigned (or not) and a logger created with (or without) instance values.

\* the values a caller assigns to a stringify or concat setting
Tristate == {Undefined, True, False}

NormValues == {Str("s"), Zero, Obj}

NormArgLists == UNION {[1..n -> NormValues] : n \in 0..MaxSinkArgs}

NormConfigs ==
  [writer : {Undefined}, color : {Undefined}, debug : {Undefined},
   stringify : Tristate, concat : Tristate]

NormGlobals == {[GlobalDefault EXCEPT !.stringify = s, !.concat = c] : s \in Tristate, c \in Tristate}

NormInit ==
  /\ env = EnvOf(FALSE, FALSE, TRUE)
  /\ GLOBAL \in NormGlobals
  /\ logger \in {NewClog(ns, c, GlobalDefault) : ns \in Namespaces, c \in NormConfigs}
  /\ wrappers = <<>>
  /\ last = NoCall
  /\ forwarder = NoForwarder

NormNext ==
  \/ Idle /\ \E m \in Methods, a \in NormArgLists : Call(m, a)
  \/ Discard

NormSpec == NormInit /\ [][NormNext]_vars

\* ------------------------------------------------ vocabulary of the claims
IsCall == last.op = "call"

OnClog == logger.kind = "clog"

\* the call was not short-circuited by logger.debug
NotSuppressed == ~(last.method = "debug" /\ logger.debugNoop)

EventsOf(kind) == SelectSeq(last.events, LAMBDA x : x.e = kind)

HookSet == GLOBAL.hook # Undefined

HookRaises == GLOBAL.hook = Fn("throws")

\* what the root logger is handed: the bracket tokens of the wrappers, the
\* one created first coming first, then the caller's arguments
RootArgs == [i \in 1..Len(wrappers) |-> Str("[" \o wrappers[i] \o "]")] \o last.args

ExpectedLevel ==
  IF last.method = "debug" THEN "DEBUG"
  ELSE IF last.method = "warn" THEN "WARNING"
  ELSE IF last.method = "error" THEN "ERROR"
  ELSE "INFO"

\* the writer the precedence order names for the present configuration
ExpectedSink ==
  IF GLOBAL.writer # Undefined THEN "global"
  ELSE IF logger.writer # Undefined THEN "instance"
  ELSE IF logger.color # Undefined THEN "color"
  ELSE "default"

\* ---------------------------------------------------------------- claims
\* C1 (as stated): every call of log, warn, error, the direct-call form or a
\* non-suppressed debug on a createClog logger invokes exactly one sink,
\* never zero and never two.
C1_AsStated ==
  (IsCall /\ OnClog /\ NotSuppressed) => Len(EventsOf("sink")) = 1

\* C1 (amended): such a call invokes exactly one sink, once, whenever the
\* global hook (if set) returns; when the hook raises no sink is invoked; a
\* call never invokes two sinks, whatever writers and color are configured.
C1_OneSink ==
  (IsCall /\ OnClog /\ NotSuppressed) =>
     Len(EventsOf("sink")) = (IF HookRaises THEN 0 ELSE 1)

C1_Witness ==
  /\ IsCall /\ OnClog /\ NotSuppressed /\ ~HookRaises
  /\ GLOBAL.writer # Undefined /\ logger.writer # Undefined /\ logger.color # Undefined
  /\ Len(EventsOf("sink")) = 1

C3_Precedence ==
  (IsCall /\ OnClog) =>
     \A i \in 1..Len(last.events) :
        last.events[i].e = "sink" => last.events[i].who = ExpectedSink

C3_Witness ==
  /\ IsCall /\ OnClog
  /\ GLOBAL.writer # Undefined /\ logger.writer # Undefined
  /\ \E i \in 1..Len(last.events) : last.events[i].e = "sink" /\ last.events[i].who = "global"

\* C4 (as stated): every method of a createClog logger, a createNoopClog
\* logger or a wrapper returns the string coercion of the first argument,
\* for every first-argument value, and "" when called with no arguments.
C4_AsStated ==
  (IsCall /\ ~last.threw) =>
     last.ret = (IF Len(last.args) = 0 THEN "" ELSE JsString(last.args[1]))

\* C4 (amended): the methods return the string coercion of the first
\* argument, except that "" is returned when there is no argument or the
\* first argument is null or undefined.
C4_Return ==
  (IsCall /\ ~last.threw) =>
     last.ret = (IF Len(last.args) = 0 \/ last.args[1] \in {Null, Undefined} THEN ""
                 ELSE JsString(last.args[1]))

C4_Witness ==
  /\ IsCall /\ ~last.threw /\ Len(wrappers) > 0
  /\ last.args = <<Obj>> /\ last.ret = "[object Object]"

C6_ResolvedPerCall ==
  (IsCall /\ OnClog /\ last.method = "debug" /\ logger.debug = Undefined) =>
     (last.events = <<>>) = (GLOBAL.debug = False)

C8_ResetRestoresDefaults ==
  last.op = "reset" => GLOBAL = GlobalDefault

\* C9: an exception of the hook or of the selected sink reaches the caller
\* of the logging method; when the hook raises no sink is invoked; the
\* global configuration is the same after the call as before it.
C9_Propagates ==
  [][ last'.op = "call" =>
        /\ GLOBAL' = GLOBAL
        /\ (\E i \in 1..Len(last'.events) : last'.events[i].e = "hook") /\ HookRaises =>
              /\ last'.threw
              /\ \A i \in 1..Len(last'.events) : last'.events[i].e # "sink"
        /\ \A i \in 1..Len(last'.events) :
              (last'.events[i].e = "sink" /\ last'.events[i].who = "global"
                 /\ GLOBAL.writer = Fn("throws")) => last'.threw
    ]_vars

C9_Witness ==
  /\ IsCall /\ HookRaises /\ Len(wrappers) > 0
  /\ last.threw /\ Len(last.events) = 1 /\ last.events[1].e = "hook"

\* C10: with stringify or concat in effect, a call whose arguments include
\* a self-referential value does not raise, JSON mode on or off, and the
\* value is written as its default string coercion.
C10_CircularFallsBack ==
  (/\ IsCall /\ OnClog /\ NotSuppressed
   /\ GLOBAL.stringify = True \/ GLOBAL.concat = True
   /\ GLOBAL.hook = Undefined /\ ExpectedSink = "default"
   /\ \E i \in 1..Len(last.args) : last.args[i] = Circ) =>
     /\ ~last.threw
     /\ \A i \in 1..Len(last.events) :
          last.events[i].e = "console" =>
             \A j \in 1..Len(last.events[i].args) : last.events[i].args[j] # Circ

\* ----------------------------------- vocabulary of the claims on the writers
Runtime == _detectRuntime(env)

JsonOn == GLOBAL.jsonOutput = True

ConsoleCalls == EventsOf("console")

HasStyled == \E i \in 1..Len(RootArgs) : RootArgs[i].t = "styled"

\* the call ends in the default sink: selected as such, or through the
\* color sink where the host has no styled output or there is no namespace
ReachesDefault ==
  \/ ExpectedSink = "default"
  \/ ExpectedSink = "color" /\ (Runtime \notin {"browser", "deno"} \/ logger.ns = False)

\* the arguments with every styled fragment replaced by its plain text
PlainText(args) == [i \in 1..Len(args) |-> IF args[i].t = "styled" THEN Str(args[i].v) ELSE args[i]]

\* the stack string of a value that exposes one, else the value
StackOr(x) == IF x.t = "error" THEN StackOf(x) ELSE x

\* the fields the JSON object is said to have, in order; stackForMessage
\* tells whether the message too is replaced by its stack string
ExpectedJsonFields(stackForMessage) ==
  LET a == PlainText(RootArgs) IN
  << <<"timestamp", Str(Timestamp)>>, <<"level", Str(ExpectedLevel)>>,
     <<"namespace", logger.ns>>,
     <<"message", IF stackForMessage THEN StackOr(FirstArg(a)) ELSE FirstArg(a)>> >>
  \o [i \in 1..(Len(a) - 1) |-> <<"arg_" \o ToString(i - 1), StackOr(a[i + 1])>>]

\* the text of a JSON object that has every one of the given fields
JsonWithAll(fields) ==
  "{" \o JoinComma([i \in 1..Len(fields) |-> "\"" \o fields[i][1] \o "\":" \o JsonText(fields[i][2])]) \o "}"

\* [timestamp] [LEVEL] [namespace], the last segment only with a namespace
TextPrefix ==
  "[" \o Timestamp \o "] [" \o ExpectedLevel \o "]"
     \o (IF logger.ns = False THEN "" ELSE " [" \o logger.ns.v \o "]")

\* the default sink has written its JSON object for the call
JsonWritten ==
  /\ IsCall /\ OnClog /\ NotSuppressed /\ JsonOn /\ ReachesDefault
  /\ Runtime # "browser" /\ ~(Runtime = "deno" /\ HasStyled)
  /\ ~last.threw

\* C11: JSON mode on, server runtime: the default sink writes for each call
\* one JSON object with exactly the fields timestamp, level, namespace,
\* message (the first argument) and arg_0, arg_1, ... for the second, third,
\* ... argument, without gaps and with no further field.
C11_JsonFields ==
  (IsCall /\ OnClog /\ NotSuppressed /\ JsonOn /\ Runtime \in {"node", "deno"} /\ ReachesDefault) =>
     /\ ~last.threw
     /\ Len(ConsoleCalls) = 1
     /\ ConsoleCalls[1].args = <<Str(JsonWithAll(ExpectedJsonFields(FALSE)))>>

\* C12 (as stated): in the JSON object every argument that exposes a stack
\* string, the first argument (message) included, is written as that string.
C12_AsStated ==
  JsonWritten =>
     /\ Len(ConsoleCalls) = 1
     /\ ConsoleCalls[1].args = <<Str(JsonStringify(ExpectedJsonFields(TRUE)))>>

\* C12 (amended): in the JSON object every argument after the first that
\* exposes a stack string is written, in its arg_N field, as that string;
\* the first argument (message) is written as the raw value.
C12_StackInArgN ==
  JsonWritten =>
     /\ Len(ConsoleCalls) = 1
     /\ ConsoleCalls[1].args = <<Str(JsonStringify(ExpectedJsonFields(FALSE)))>>

C12_Witness ==
  /\ JsonWritten /\ Runtime = "node"
  /\ Len(last.args) = 2 /\ last.args[1] = Err("boom") /\ last.args[2] = Err("boom")
  /\ Len(ConsoleCalls) = 1

\* C13: JSON mode on, runtime node or deno: every call that reaches the
\* default sink writes exactly one console argument, a JSON object string,
\* for every argument list, lists with styled fragments included.
C13_AlwaysJson ==
  (IsCall /\ OnClog /\ NotSuppressed /\ JsonOn /\ Runtime \in {"node", "deno"} /\ ReachesDefault) =>
     /\ Len(ConsoleCalls) = 1
     /\ Len(ConsoleCalls[1].args) = 1
     /\ ConsoleCalls[1].args[1] = Str(JsonStringify(ExpectedJsonFields(FALSE)))

C15_BrowserArgs ==
  (IsCall /\ OnClog /\ NotSuppressed /\ Runtime = "browser" /\ ReachesDefault /\ ~HasStyled) =>
     /\ Len(ConsoleCalls) = 1
     /\ ConsoleCalls[1].args =
          (IF logger.ns = False THEN <<>> ELSE <<Str("[" \o logger.ns.v \o "]")>>) \o RootArgs

\* C16: debug gives DEBUG, log and the direct call INFO, warn WARNING,
\* error ERROR in the record, and the default and color sinks write through
\* the console method named like the method called (log for the direct
\* call): no call is written to another severity channel.
C16_LevelAndChannel ==
  (IsCall /\ OnClog) =>
     \A i \in 1..Len(last.events) :
        /\ last.events[i].level = ExpectedLevel
        /\ last.events[i].e = "console" =>
              last.events[i].who = (IF last.method = "call" THEN "log" ELSE last.method)

C16_Witness ==
  /\ IsCall /\ OnClog /\ last.method = "warn" /\ ExpectedSink = "color"
  /\ Len(ConsoleCalls) = 1
  /\ ConsoleCalls[1].who = "warn" /\ ConsoleCalls[1].level = "WARNING"

\* C17: a wrapper delegates each call once to the wrapped logger's method
\* of the same name (the direct call to log) with `[namespace]` put before
\* the caller's arguments; through nested wrappers the root logger receives
\* the bracket tokens with the wrapper created first coming first, then the
\* caller's arguments, and the record's namespace is the root logger's.
C17_WrapperDelegates ==
  (IsCall /\ OnClog /\ NotSuppressed /\ Len(wrappers) > 0) =>
     /\ \A i \in 1..Len(last.events) :
           last.events[i].e \in {"hook", "sink"} =>
              /\ last.events[i].args = RootArgs
              /\ last.events[i].ns = logger.ns
              /\ last.events[i].level = ExpectedLevel
     /\ Len(EventsOf("hook")) = (IF HookSet THEN 1 ELSE 0)
     /\ Len(EventsOf("sink")) = (IF HookRaises THEN 0 ELSE 1)

C17_Witness ==
  /\ IsCall /\ OnClog /\ wrappers = <<"module", "sub">> /\ last.method = "error"
  /\ last.args = <<Str("s")>> /\ last.ret = "s"
  /\ Len(EventsOf("sink")) = 1
  /\ EventsOf("sink")[1].args = <<Str("[module]"), Str("[sub]"), Str("s")>>
  /\ EventsOf("sink")[1].level = "ERROR"

\* C18: a wrapper's debug call produces output exactly when the same call
\* on the wrapped logger would: around a debug-suppressed logger, debug
\* gives no hook call and no console output at any nesting depth, while
\* log, warn and error of the wrapper go to the hook and the sink as they
\* do on the wrapped logger; around a logger that is not suppressed, debug
\* does too.
C18_WrapperInheritsSuppression ==
  (IsCall /\ OnClog /\ Len(wrappers) > 0) =>
     IF last.method = "debug" /\ logger.debugNoop THEN last.events = <<>>
     ELSE /\ last.events # <<>>
          /\ Len(EventsOf("hook")) = (IF HookSet THEN 1 ELSE 0)
          /\ Len(EventsOf("sink")) = (IF HookRaises THEN 0 ELSE 1)

C18_Witness ==
  /\ IsCall /\ OnClog /\ Len(wrappers) = 2 /\ logger.debugNoop
  /\ last.method = "debug" /\ HookSet /\ last.events = <<>>

\* C19: no method of a createNoopClog logger invokes the hook, a writer or
\* the console, whatever the global configuration; the global
\* configuration is left as it was; the logger's ns is the namespace given,
\* or false when none (or null) was given.
C19_NoopIsSilent ==
  [][ /\ last'.op = "createNoopClog" =>
           /\ logger'.kind = "noop"
           /\ logger'.ns = (IF last'.args[1] \in {Undefined, Null} THEN False ELSE last'.args[1])
           /\ GLOBAL' = GLOBAL
      /\ (last'.op = "call" /\ logger.kind = "noop") =>
           /\ last'.events = <<>>
           /\ ~last'.threw
           /\ GLOBAL' = GLOBAL
    ]_vars

C19_Witness ==
  /\ IsCall /\ logger.kind = "noop" /\ logger.ns = Str("app")
  /\ GLOBAL.hook = Fn("throws") /\ Len(wrappers) = 0
  /\ last.method = "error" /\ last.events = <<>> /\ ~last.threw

\* the format string said to be built from the arguments: each fragment as
\* %c<text>%c, each string as it is, %o for any other value
FormatPieces(args) ==
  [i \in 1..Len(args) |->
     IF args[i].t = "styled" THEN "%c" \o args[i].v \o "%c"
     ELSE IF args[i].t = "string" THEN args[i].v
     ELSE "%o"]

\* the values that follow the format string: for each fragment its style
\* and the empty reset style, and each value written as %o. n arguments done
RECURSIVE FormatValues(_, _)
FormatValues(args, n) ==
  IF n = 0 THEN <<>>
  ELSE FormatValues(args, n - 1) \o
       (IF args[n].t = "styled" THEN <<Str(args[n].style), Str("")>>
        ELSE IF args[n].t = "string" THEN <<>>
        ELSE <<args[n]>>)

\* what may stand before the expanded arguments in the format string
FormatLeads ==
  LET stamp == "[" \o Timestamp \o "] [" \o ExpectedLevel \o "] "
      tag == IF logger.ns = False THEN "" ELSE "[" \o logger.ns.v \o "]"
  IN {"", stamp} \cup
     (IF tag = "" THEN {}
      ELSE {tag \o " ", stamp \o tag \o " ", "%c" \o tag \o "%c ", stamp \o "%c" \o tag \o "%c "})

\* C20: the built-in sinks handle styled fragments on every runtime: on
\* node and unknown each fragment is replaced by its plain text at the same
\* argument position and the console receives no style string and no
\* empty-string artifact; on browser and deno the fragments are expanded
\* into a %c format string followed by their style values.
C20_StyledHandled ==
  (IsCall /\ OnClog /\ NotSuppressed /\ ExpectedSink \in {"default", "color"} /\ HasStyled) =>
     /\ ~last.threw
     /\ Len(ConsoleCalls) = 1
     /\ LET cargs == ConsoleCalls[1].args IN
        IF Runtime \in {"node", "unknown"} THEN
          /\ \A j \in 1..Len(cargs) :
                /\ cargs[j].t # "styled"
                /\ cargs[j] # Str("")
                /\ \A i \in 1..Len(RootArgs) :
                      RootArgs[i].t = "styled" => cargs[j] # Str(RootArgs[i].style)
          /\ IF JsonOn THEN cargs = <<Str(JsonStringify(ExpectedJsonFields(FALSE)))>>
             ELSE cargs = <<Str(TextPrefix)>> \o PlainText(RootArgs)
        ELSE
          LET vals == FormatValues(RootArgs, Len(RootArgs))
              own == Len(cargs) - 1 - Len(vals)
          IN /\ own \in {0, 2}
             /\ SubSeq(cargs, 2 + own, Len(cargs)) = vals
             /\ \E lead \in FormatLeads : cargs[1] = Str(lead \o JoinSp(FormatPieces(RootArgs)))

C20_Witness ==
  /\ IsCall /\ OnClog /\ Runtime = "node" /\ ~JsonOn /\ logger.ns = Str("app")
  /\ last.method = "log"
  /\ last.args = <<Str("s"), Styled("hi", "color:blue"), Obj>>
  /\ Len(ConsoleCalls) = 1
  /\ ConsoleCalls[1].args =
       <<Str("[2026-01-01T00:00:00.000Z] [INFO] [app]"), Str("s"), Str("hi"), Obj>>

\* C21: a logger configured with a color writes exactly what the default
\* sink writes for the same call - same console method, same arguments,
\* JSON mode respected - whenever the runtime has no styled output (node,
\* unknown) or the logger has no namespace.
C21_ColorFallsBack ==
  (/\ IsCall /\ OnClog /\ NotSuppressed /\ ExpectedSink = "color"
   /\ (Runtime \in {"node", "unknown"} \/ logger.ns = False)) =>
     LET plain == defaultWriter(env, GLOBAL,
                    [level |-> ExpectedLevel, namespace |-> logger.ns,
                     args |-> RootArgs, timestamp |-> Timestamp])
     IN /\ ConsoleCalls = plain.events
        /\ last.threw = plain.threw

C21_Witness ==
  /\ IsCall /\ OnClog /\ ExpectedSink = "color" /\ Runtime = "deno" /\ logger.ns = False
  /\ JsonOn /\ last.method = "warn" /\ last.args = <<Str("s"), Obj>>
  /\ Len(ConsoleCalls) = 1 /\ ConsoleCalls[1].who = "warn"
  /\ Len(ConsoleCalls[1].args) = 1

\* C24: the runtime detector returns one of browser, deno, node, unknown:
\* browser whenever a window with a document exists, whatever server
\* markers are present; else deno when the Deno version marker is present,
\* also with the node marker present; else node when the node version
\* marker is present; else unknown. The default sink writes the browser
\* form (no timestamp prefix) exactly on the hosts detected as browser.
C24_DetectionOrder ==
  /\ Runtime \in {"browser", "deno", "node", "unknown"}
  /\ env.window => Runtime = "browser"
  /\ (~env.window /\ env.deno) => Runtime = "deno"
  /\ (~env.window /\ ~env.deno /\ env.node) => Runtime = "node"
  /\ (~env.window /\ ~env.deno /\ ~env.node) => Runtime = "unknown"
  /\ (IsCall /\ OnClog /\ ReachesDefault /\ ~JsonOn /\ ~HasStyled) =>
        (ConsoleCalls[1].args[1] = Str(TextPrefix)) = ~env.window

C24_Witness ==
  /\ env = EnvOf(FALSE, TRUE, TRUE) /\ Runtime = "deno"
  /\ IsCall /\ OnClog /\ ExpectedSink = "default" /\ ~JsonOn
  /\ last.args = <<Styled("hi", "color:blue")>> /\ last.method = "log"
  /\ Len(ConsoleCalls) = 1
  /\ ConsoleCalls[1].args =
       <<Str("[2026-01-01T00:00:00.000Z] [INFO] %chi%c"), Str("color:blue"), Str("")>>

\* what a call shows of the global hook, writer and JSON flag in force
ReadsGlobalAtCall ==
  (IsCall /\ OnClog /\ NotSuppressed) =>
     /\ (Len(EventsOf("hook")) = 1) = HookSet
     /\ \A i \in 1..Len(last.events) :
           last.events[i].e = "sink" => last.events[i].who = ExpectedSink
     /\ (ExpectedSink = "default" /\ Runtime = "node" /\ Len(ConsoleCalls) = 1) =>
           IF JsonOn THEN Len(ConsoleCalls[1].args) = 1
           ELSE ConsoleCalls[1].args = <<Str(TextPrefix)>> \o RootArgs

\* the logger createClog would return now for the namespace and instance
\* config of the logger the program holds
FreshLogger ==
  NewClog(logger.ns,
          [writer |-> logger.writer, color |-> logger.color, debug |-> logger.debug,
           stringify |-> logger.stringify, concat |-> logger.concat], GLOBAL)

\* C28: the global hook, the global writer and the JSON flag are read at
\* every call, not captured at creation: the second of two calls uses the
\* values set in between; after reset() an existing logger behaves exactly
\* like a freshly created one with the same namespace and instance config.
C28_ReadPerCall ==
  [][ /\ ReadsGlobalAtCall'
      /\ (last.op = "reset" /\ last'.op = "call" /\ OnClog) =>
            LET fresh == Invoke(Len(wrappers), last'.method, last'.args, wrappers,
                                FreshLogger, env, GLOBAL)
            IN /\ last'.events = fresh.events
               /\ last'.threw = fresh.threw
               /\ last'.ret = fresh.ret
    ]_vars

\* the directives the console finds in a plain string of the model
PercentDirectives(str) == IF str = "50%off" THEN 1 ELSE 0

\* the directives an argument brings into the format string
PieceDirectives(a) ==
  IF a.t = "styled" THEN 2
  ELSE IF a.t = "string" THEN PercentDirectives(a.v)
  ELSE 1

RECURSIVE SumDirectives(_, _)
SumDirectives(args, n) ==
  IF n = 0 THEN 0 ELSE SumDirectives(args, n - 1) + PieceDirectives(args[n])

\* C29: on the styled-output path (browser or deno, a styled fragment among
\* the arguments) the format string handed to the console holds exactly as
\* many directives (%c, %o) as value arguments follow it, for every
\* argument list, plain strings that contain '%' directives included.
C29_DirectivesMatchValues ==
  (/\ IsCall /\ OnClog /\ NotSuppressed /\ ExpectedSink \in {"default", "color"}
   /\ Runtime \in {"browser", "deno"} /\ HasStyled) =>
     /\ Len(ConsoleCalls) = 1
     /\ LET cargs == ConsoleCalls[1].args
            label == IF ExpectedSink = "color" /\ logger.ns # False THEN 2 ELSE 0
        IN /\ \E lead \in FormatLeads : cargs[1] = Str(lead \o JoinSp(FormatPieces(RootArgs)))
           /\ label + SumDirectives(RootArgs, Len(RootArgs)) = Len(cargs) - 1

\* the effective value of a setting: the instance value if set, else the
\* global value, else false
Effective(instance, global) == Coalesce(Coalesce(instance, global), False) = True

EffectiveStringify == Effective(logger.stringify, GLOBAL.stringify)

EffectiveConcat == Effective(logger.concat, GLOBAL.concat)

NonPrimitive(x) == x.t \notin {"undefined", "null", "boolean", "number", "string"}

\* the arguments with every non-primitive one replaced by its JSON text
Stringified(args) ==
  [i \in 1..Len(args) |-> IF NonPrimitive(args[i]) THEN Str(JsonText(args[i])) ELSE args[i]]

\* C22: the effective stringify setting is the instance value if set, else
\* the global value, else false. When it is true every non-primitive
\* argument reaches the sink output as its JSON text and the primitive ones
\* are passed unchanged; when it is false all arguments are passed as they
\* are. (Calls with concat not in effect, which C23 is about.)
C22_StringifySetting ==
  (IsCall /\ OnClog /\ NotSuppressed /\ ExpectedSink = "default" /\ ~EffectiveConcat) =>
     /\ Len(ConsoleCalls) = 1
     /\ ConsoleCalls[1].args =
          <<Str(TextPrefix)>> \o (IF EffectiveStringify THEN Stringified(RootArgs) ELSE RootArgs)

\* C23: when the effective concat setting is true (instance value if set,
\* else global, else false) the console receives one string argument: the
\* prefix and all arguments joined by single spaces, non-primitive
\* arguments stringified even with stringify explicitly false; instance
\* concat = false over global concat = true gives the arguments
\* un-concatenated and un-stringified.
C23_ConcatSetting ==
  (IsCall /\ OnClog /\ NotSuppressed /\ ExpectedSink = "default") =>
     /\ Len(ConsoleCalls) = 1
     /\ EffectiveConcat =>
          ConsoleCalls[1].args =
             <<Str(JoinSp(<<TextPrefix>> \o
                          [i \in 1..Len(RootArgs) |-> Stringified(RootArgs)[i].v]))>>
     /\ (logger.concat = False /\ GLOBAL.concat = True /\ ~EffectiveStringify) =>
          ConsoleCalls[1].args = <<Str(TextPrefix)>> \o RootArgs

\* ------------------------------------------------- the log forwarder at work
\* A program creates one forwarder, may install forwarder.hook as the global
\* hook, logs through a clog logger, hands records to the forwarder directly,
\* and flushes, drains, starts, stops and resets it; the interval timer
\* flushes on its own while it runs.

\* no config, { maxBatchSize }, { logger: undefined }, { logger }
ForwarderConfigs ==
  {ForwarderConfig(FALSE, FALSE, Undefined, 0), ForwarderConfig(TRUE, FALSE, Undefined, MaxBuffer)} \cup
  {ForwarderConfig(TRUE, TRUE, lg, 0) : lg \in {Undefined, callerLogger}}

\* the records the tests add by hand
TestRecords == {[level |-> "WARNING", namespace |-> Str("test"), args |-> <<Str("msg1")>>]}

ForwarderMethods == {"log", "debug"}

ForwarderArgLists == {<<Str("s")>>}

\* the outcome of an operation of the forwarder, kept for the caller: again
\* tells whether the operation before it was the same one, data what was
\* handed in
ForwarderOp(op, prev, data) ==
  Last(op, IF op = "drain" /\ prev = op THEN "again" ELSE "", data, Result(<<>>, FALSE, ""))

CreateLogForwarder(config, autostart) ==
  /\ ~forwarder.created
  /\ forwarder' = createLogForwarder(config, autostart)
  /\ last' = NoCall
  /\ UNCHANGED <<env, GLOBAL, logger, wrappers>>

\* forwarder.hook(data) or forwarder.add(data), called by hand
ForwarderPut(via, data) ==
  /\ forwarder.created
  /\ forwarder.seq < MaxRecords
  /\ forwarder' = IF via = "hook" THEN ForwarderHook(forwarder, data, GLOBAL)
                                   ELSE ForwarderAdd(forwarder, data, GLOBAL)
  /\ last' = ForwarderOp(via, last.op, <<data>>)
  /\ UNCHANGED <<env, GLOBAL, logger, wrappers>>

\* await forwarder.flush()
Flush(ok, keep) ==
  /\ forwarder.created
  /\ forwarder' = ForwarderFlush(forwarder, ok, keep)
  /\ last' = ForwarderOp("flush", last.op, <<>>)
  /\ UNCHANGED <<env, GLOBAL, logger, wrappers>>

\* await forwarder.drain()
Drain(ok, keep) ==
  /\ forwarder.created
  /\ forwarder' = ForwarderDrain(forwarder, ok, keep)
  /\ last' = ForwarderOp("drain", last.op, <<>>)
  /\ UNCHANGED <<env, GLOBAL, logger, wrappers>>

Start ==
  /\ forwarder.created
  /\ ~forwarder.running
  /\ forwarder' = ForwarderStart(forwarder)
  /\ last' = NoCall
  /\ UNCHANGED <<env, GLOBAL, logger, wrappers>>

Stop ==
  /\ forwarder.created
  /\ forwarder.running
  /\ forwarder' = ForwarderStop(forwarder)
  /\ last' = NoCall
  /\ UNCHANGED <<env, GLOBAL, logger, wrappers>>

ResetForwarder ==
  /\ forwarder.created
  /\ Len(forwarder.buffer) > 0
  /\ forwarder' = ForwarderReset(forwarder)
  /\ last' = NoCall
  /\ UNCHANGED <<env, GLOBAL, logger, wrappers>>

\* the interval timer of a running BatchFlusher fires
TimerFlush(ok, keep) ==
  /\ forwarder.running
  /\ Len(forwarder.buffer) > 0
  /\ forwarder' = BatcherFlush(forwarder, ok, keep)
  /\ last' = NoCall
  /\ UNCHANGED <<env, GLOBAL, logger, wrappers>>

\* a logger whose debug is switched off: log is dispatched, debug suppressed
ForwarderLoggers ==
  {NewClog(Str("app"), c, GlobalDefault) :
     c \in [writer : {Undefined}, color : {Undefined}, debug : {False},
            stringify : {Undefined}, concat : {Undefined}]}

ForwarderInit ==
  /\ env = EnvOf(FALSE, FALSE, TRUE)
  /\ GLOBAL = GlobalDefault
  /\ logger \in ForwarderLoggers
  /\ wrappers = <<>>
  /\ last = NoCall
  /\ forwarder = NoForwarder

ForwarderNext ==
  \/ Idle /\ \E c \in ForwarderConfigs, a \in {Undefined, False} : CreateLogForwarder(c, a)
  \/ Idle /\ forwarder.created /\ \E v \in {Undefined, Fn("forwarder")} : SetGlobal("hook", v)
  \/ Idle /\ forwarder.seq < MaxRecords
          /\ \E m \in ForwarderMethods, a \in ForwarderArgLists : Call(m, a)
  \/ Discard
  \/ Idle /\ \E via \in {"hook", "add"}, d \in TestRecords : ForwarderPut(via, d)
  \/ Idle /\ \E ok \in BOOLEAN, keep \in BOOLEAN : Flush(ok, keep)
  \/ Idle /\ \E ok \in BOOLEAN, keep \in BOOLEAN : Drain(ok, keep)
  \/ Idle /\ Start
  \/ Idle /\ Stop
  \/ Idle /\ ResetForwarder
  \/ Idle /\ \E ok \in BOOLEAN, keep \in BOOLEAN : TimerFlush(ok, keep)

ForwarderSpec == ForwarderInit /\ [][ForwarderNext]_vars

\* ----------------------------------------------- vocabulary of the forwarder
\* the records of rs are in the order in which they were added
InCallOrder(rs) == \A i, j \in 1..Len(rs) : i < j => rs[i].n < rs[j].n

\* no record is in two batches the flusher accepted
NoRecordTwice ==
  LET rs == forwarder.accepted IN
  \A i, j \in 1..Len(rs) : i # j => rs[i].n # rs[j].n

ForwarderHooked == GLOBAL.hook = Fn("forwarder")

\* the step added exactly one record, data, behind the buffered ones
AddsOne(data) ==
  /\ forwarder'.seq = forwarder.seq + 1
  /\ Len(forwarder'.buffer) > 0
  /\ forwarder'.buffer[Len(forwarder'.buffer)] = [n |-> forwarder'.seq, data |-> data]
  /\ InCallOrder(forwarder'.buffer)
  /\ \A i \in 1..(Len(forwarder'.buffer) - 1) :
        \E j \in 1..Len(forwarder.buffer) : forwarder.buffer[j] = forwarder'.buffer[i]
  /\ forwarder.limit = 0 => forwarder'.buffer = Append(forwarder.buffer, [n |-> forwarder'.seq, data |-> data])
  /\ forwarder'.handed = forwarder.handed
  /\ forwarder'.accepted = forwarder.accepted

\* the step handed the flusher the whole buffer as one batch, or nothing when
\* the buffer was empty; what the flusher accepted is that batch or nothing
HandsBuffer ==
  /\ forwarder'.handed = (IF Len(forwarder.buffer) = 0 THEN forwarder.handed ELSE forwarder.buffer)
  /\ forwarder'.accepted \in {forwarder.accepted, forwarder.accepted \o forwarder.buffer}

C25_Step ==
  /\ last'.op \in {"hook", "add"} => AddsOne(last'.args[1])
  /\ last'.op = "flush" =>
        /\ HandsBuffer
        /\ forwarder'.accepted # forwarder.accepted => ForwarderSize(forwarder') = 0
  /\ (last'.op = "call" /\ ForwarderHooked) =>
        IF NotSuppressed'
        THEN AddsOne([level |-> ExpectedLevel', namespace |-> logger.ns, args |-> RootArgs'])
        ELSE forwarder' = forwarder

C26_Step ==
  last'.op = "drain" =>
    /\ HandsBuffer
    /\ ~forwarder'.running
    /\ NoRecordTwice'
    /\ (last'.method = "again" /\ ForwarderSize(forwarder) = 0) =>
          (forwarder'.handed = forwarder.handed /\ forwarder'.accepted = forwarder.accepted)

LoggerSupplied ==
  forwarder.config.given /\ forwarder.config.hasLogger /\ ~Nullish(forwarder.config.logger)

\* C27: the BatchFlusher is constructed with the no-op logger whenever the
\* configuration's logger is absent or undefined and with the caller's logger
\* only when one is supplied, so that its own debug output never comes back
\* through forwarder.hook installed as the global hook.
C27_SilentByDefault ==
  forwarder.created =>
    /\ forwarder.logger = (IF LoggerSupplied THEN forwarder.config.logger ELSE noopLogger)
    /\ ~forwarder.reentered

\* ------------------------------------------------------- legacy createClog
\* clog.old.ts: the CONFIG / MASTER version. In this module the process-global
\* record is createClog.CONFIG, kept in the variable GLOBAL, and logger is
\*   [kind, ns, arg, config, writer, switched]
\* arg is the config argument of createClog, config what the closure holds:
\* ref tells that it is createClog.CONFIG itself, flags its own flags
\* otherwise. switched is the last of CONFIG.none() / CONFIG.all() issued
\* since the logger was created.

CONFIG == GLOBAL

LegacyLevels == {"debug", "log", "info", "warn", "error"}

_confObj(v) == [debug |-> v, log |-> v, info |-> v, warn |-> v, error |-> v]

\* createClog.CONFIG as the module defines it
ConfigDefault ==
  [debug |-> True, log |-> True, info |-> True, warn |-> True, error |-> True,
   MASTER |-> Null, WRITER |-> Null]

\* Object.assign(createClog.CONFIG, flags)
Assign(c, flags) == [k \in DOMAIN c |-> IF k \in DOMAIN flags THEN flags[k] ELSE c[k]]

ConfigNone(c) == Assign(c, _confObj(False))

ConfigAll(c) == Assign(c, _confObj(True))

ConfigReset(c) == [ConfigAll(c) EXCEPT !.MASTER = Null, !.WRITER = Null]

\* the config the closure holds: createClog.CONFIG itself for null, a fresh
\* _confObj for the boolean shortcuts, the caller's object otherwise
LegacyConfig(config, c) ==
  IF config = Null THEN [ref |-> TRUE, flags |-> _confObj(False)]
  ELSE IF config = True THEN [ref |-> FALSE, flags |-> _confObj(True)]
  ELSE IF config = False THEN [ref |-> FALSE, flags |-> _confObj(False)]
  ELSE [ref |-> FALSE, flags |-> config]

\* createClog(ns, config, writer) of clog.old.ts
LegacyLogger(ns, config, writer, c) ==
  [kind |-> "legacy", ns |-> IF ns # False THEN Str("[" \o JsString(ns) \o "]") ELSE ns,
   arg |-> config, config |-> LegacyConfig(config, c), writer |-> writer, switched |-> ""]

\* config?.[k] at the time of the call
LegacyFlag(lg, c, k) == IF lg.config.ref THEN c[k] ELSE lg.config.flags[k]

\* the switch without the MASTER test
apply_noMaster(k, args, lg, c) ==
  LET w == IF Truthy(c.WRITER) THEN "global" ELSE "instance" IN
  IF Truthy(LegacyFlag(lg, c, k))
  THEN Result(<<Ev("writer", w, k, lg.ns, IF Truthy(lg.ns) THEN <<lg.ns>> \o args ELSE args)>>, FALSE, "")
  ELSE Result(<<>>, FALSE, "")

\* apply(k, args)
apply(k, args, lg, c) ==
  LET w == IF Truthy(c.WRITER) THEN "global" ELSE "instance" IN
  IF c.MASTER # False /\ (Truthy(c.MASTER) \/ Truthy(LegacyFlag(lg, c, k)))
  THEN Result(<<Ev("writer", w, k, lg.ns, IF Truthy(lg.ns) THEN <<lg.ns>> \o args ELSE args)>>, FALSE, "")
  ELSE Result(<<>>, FALSE, "")

\* a config object with flags of its own
\* { debug: false, log: true, .. } and { log: true }, whose other flags are
\* undefined
LocalConfigs == {[_confObj(True) EXCEPT !.debug = False], [_confObj(Undefined) EXCEPT !.log = True]}

LegacyConfigArgs == {Null, True, False} \cup LocalConfigs

MasterValues == {Null, True, False, Zero}

LegacyCreateClog(ns, config, writer) ==
  /\ logger' = LegacyLogger(ns, config, writer, CONFIG)
  /\ last' = NoCall
  /\ UNCHANGED <<env, GLOBAL, wrappers, forwarder>>

\* createClog.CONFIG.none()
None ==
  /\ GLOBAL' = ConfigNone(CONFIG)
  /\ logger' = [logger EXCEPT !.switched = "none"]
  /\ last' = NoCall
  /\ UNCHANGED <<env, wrappers, forwarder>>

\* createClog.CONFIG.all()
All ==
  /\ GLOBAL' = ConfigAll(CONFIG)
  /\ logger' = [logger EXCEPT !.switched = "all"]
  /\ last' = NoCall
  /\ UNCHANGED <<env, wrappers, forwarder>>

\* createClog.CONFIG.reset()
LegacyReset ==
  /\ GLOBAL' = ConfigReset(CONFIG)
  /\ logger' = [logger EXCEPT !.switched = "all"]
  /\ last' = NoCall
  /\ UNCHANGED <<env, wrappers, forwarder>>

\* createClog.CONFIG.MASTER = v
SetMaster(v) ==
  /\ CONFIG.MASTER # v
  /\ GLOBAL' = [CONFIG EXCEPT !.MASTER = v]
  /\ last' = NoCall
  /\ UNCHANGED <<env, logger, wrappers, forwarder>>

\* createClog.CONFIG.WRITER = v
SetWriter(v) ==
  /\ CONFIG.WRITER # v
  /\ GLOBAL' = [CONFIG EXCEPT !.WRITER = v]
  /\ last' = NoCall
  /\ UNCHANGED <<env, logger, wrappers, forwarder>>

\* clog(...), clog.log, clog.debug, clog.info, clog.warn, clog.error
LegacyCall(k, args) ==
  /\ last' = Last("call", k, args, apply(k, args, logger, CONFIG))
  /\ UNCHANGED <<env, GLOBAL, logger, wrappers, forwarder>>

LegacyInit ==
  /\ env = EnvOf(FALSE, FALSE, TRUE)
  /\ GLOBAL = ConfigDefault
  /\ logger \in {LegacyLogger(ns, c, Null, ConfigDefault) : ns \in {Str("app"), False}, c \in LegacyConfigArgs}
  /\ wrappers = <<>>
  /\ last = NoCall
  /\ forwarder = NoForwarder

LegacyNext ==
  \/ Idle /\ \E ns \in {Str("app"), False}, c \in LegacyConfigArgs : LegacyCreateClog(ns, c, Null)
  \/ Idle /\ None
  \/ Idle /\ All
  \/ Idle /\ LegacyReset
  \/ Idle /\ \E v \in MasterValues : SetMaster(v)
  \/ Idle /\ \E v \in {Null, Fn("returns")} : SetWriter(v)
  \/ Idle /\ \E k \in LegacyLevels : LegacyCall(k, <<Str("s")>>)
  \/ Discard

LegacySpec == LegacyInit /\ [][LegacyNext]_vars

\* the flag of level k the logger goes by: the global one, as it is now, for
\* a logger created with null; the one of its own config otherwise
OwnFlag(k) ==
  IF logger.arg = Null THEN CONFIG[k]
  ELSE IF logger.arg = True THEN True
  ELSE IF logger.arg = False THEN False
  ELSE logger.arg[k]

Written == Len(EventsOf("writer")) = 1

\* C30: in the legacy createClog a call on level k is written if and only if
\* CONFIG.MASTER is not false and (CONFIG.MASTER is truthy or the logger's
\* flag for k is truthy); a logger created with null goes by the global flags
\* at the time of the call, so that CONFIG.none() after its creation silences
\* it and CONFIG.all() re-enables it, and a logger with a config of its own
\* goes by that config whatever none() and all() did.
C30_LegacySwitch ==
  IsCall =>
    /\ Len(last.events) <= 1
    /\ Written <=> (CONFIG.MASTER # False
                      /\ (Truthy(CONFIG.MASTER) \/ Truthy(OwnFlag(last.method))))
    /\ (logger.arg = Null /\ ~Truthy(CONFIG.MASTER) /\ logger.switched = "none") => ~Written
    /\ (logger.arg = Null /\ CONFIG.MASTER # False /\ logger.switched = "all") => Written

\* a logger created with null while everything was on wrote nothing after
\* CONFIG.none()
C30_Witness ==
  /\ IsCall
  /\ logger.arg = Null
  /\ logger.switched = "none"
  /\ CONFIG.MASTER = Null
  /\ ~Written

====
